---- MODULE Spec2Model ----
(***************************************************************************)
(* A model of the file compression tool: the three codecs of algorithms.py *)
(* (RLE, HuffmanCoding, LZW), the codec registry get_algorithm, and the    *)
(* container written and read by Compressor in compressor.py.              *)
(*                                                                         *)
(* Byte strings are sequences of integers in 0..255.  Bit strings (the     *)
(* Python str of '0'/'1' characters used by HuffmanCoding) are sequences   *)
(* of 0 and 1.  A Python dict is a sequence of <<key, value>> pairs in     *)
(* insertion order.  A text string is a sequence of code points.           *)
(***************************************************************************)
EXTENDS Integers, Sequences, FiniteSets, TLC

VARIABLES
    codec,        \* the codec instance under test (its class and, for Huffman, its fields)
    data,         \* the byte string handed to codec.compress
    compressed,   \* the payload under test: where it came from, and its bytes
    result,       \* the outcome of the last codec.decompress call
    decoding,     \* the locals of an LZW.decompress call that runs code by code
    fs,           \* the file system: path -> file contents, for the files that exist
    compressor,   \* the Compressor instance in use
    allocated,    \* how many codec instances get_algorithm has created so far
    last          \* the last Compressor / registry call and its outcome

vars == <<codec, data, compressed, result, decoding, fs, compressor, allocated, last>>

codecVars == <<codec, data, compressed, result, decoding>>
fileVars == <<fs, compressor, allocated, last>>

-----------------------------------------------------------------------------
(* Bounds of the model. *)

\* Longest input byte string enumerated exhaustively.
MaxLen == 4
\* Number of distinct byte values the enumerated inputs are drawn from.
NumSyms == 3
\* Longest externally supplied (not produced by compress) payload.
MaxRawLen == 3
\* Longest contents of an input file of the Compressor workflow.
MaxFileLen == 2
\* Most files the file system holds.
MaxFiles == 2
\* Most codec instances created in one run (get_algorithm creates three per call).
MaxInstances == 9
\* Longest file handed to compress_file.
MaxInputLen == 4
\* Longest input made of one repeated byte.
MaxRunLen == 520
\* An instance whose code table has reached this size takes no further earlier
\* compress call before the call under test.
MaxEarlierCodes == 1
\* Longest input to LZW.compress over two byte values.
MaxLZWLen == 8

(* Program constants. *)

\* The largest run count RLE.compress stores in one pair (count < 255).
MaxCount == 255

Byte == 0..255

\* The byte values inputs are drawn from: 'A', 'B', ...
Alphabet == 65..(65 + NumSyms - 1)

\* All sequences over S of length 0..n.
SeqsUpTo(S, n) == UNION {[1..k -> S] : k \in 0..n}

\* [value] * count
Rep(value, count) == [j \in 1..count |-> value]

ShortInputs == SeqsUpTo(Alphabet, MaxLen)

\* Inputs holding a run around and beyond the largest count of one pair,
\* with up to one byte before and after it.
LongRunLengths == {MaxCount - 1, MaxCount, MaxCount + 1, 2 * MaxCount, 2 * MaxCount + 1}
LongInputs ==
    {pre \o Rep(b, n) \o suf :
        pre \in SeqsUpTo(Alphabet, 1), suf \in SeqsUpTo(Alphabet, 1),
        b \in Alphabet, n \in LongRunLengths}

\* Outcome of a call: what it returned, or the exception it raised.
Returned(v) == [status |-> "returned", value |-> v, error |-> "none"]
Raised(e) == [status |-> "raised", value |-> <<>>, error |-> e]
NotCalled == [status |-> "idle", value |-> <<>>, error |-> "none"]

-----------------------------------------------------------------------------
(* RLE (algorithms.py, class RLE) *)

\* A plausible slip: the count is compared with 256 (count <= 255), so a pair
\* is emitted one byte late.
EmitAt_late(d, start) ==
    LET stops == {j \in (start + 1)..Len(d) : d[j] # d[start] \/ j - start >= MaxCount + 1}
    IN IF stops = {} THEN Len(d) + 1
       ELSE CHOOSE j \in stops : \A k \in stops : j <= k

\* A plausible slip: the count is compared with 254 (count < 254), so a run
\* that fits in one pair is split one byte early.
EmitAt_early(d, start) ==
    LET stops == {j \in (start + 1)..Len(d) : d[j] # d[start] \/ j - start >= MaxCount - 1}
    IN IF stops = {} THEN Len(d) + 1
       ELSE CHOOSE j \in stops : \A k \in stops : j <= k

\* The for loop of RLE.compress over data[1:], one emitted pair per level: with
\* current = d[start] and count = 1 at position start, the loop increments count
\* at each following byte equal to current while count < 255, so it takes the
\* else branch (emit, restart) at the first position j > start where
\* d[j] # current or count = j - start has reached 255.
EmitAt(d, start) ==
    LET stops == {j \in (start + 1)..Len(d) : d[j] # d[start] \/ j - start >= MaxCount}
    IN IF stops = {} THEN Len(d) + 1
       ELSE CHOOSE j \in stops : \A k \in stops : j <= k

RECURSIVE RLE_compress_loop(_, _, _)
RLE_compress_loop(d, start, out) ==
    LET j == EmitAt(d, start)
    IN IF j > Len(d) THEN out \o <<j - start, d[start]>>   \* the extend after the loop
       ELSE RLE_compress_loop(d, j, out \o <<j - start, d[start]>>)

\* A plausible slip: the trailing pair (the extend after the loop) is forgotten.
RECURSIVE RLE_compress_loop_nolast(_, _, _)
RLE_compress_loop_nolast(d, start, out) ==
    LET j == EmitAt(d, start)
    IN IF j > Len(d) THEN out
       ELSE RLE_compress_loop_nolast(d, j, out \o <<j - start, d[start]>>)

RLE_compress_nolast(d) ==
    IF d = <<>> THEN <<>> ELSE RLE_compress_loop_nolast(d, 1, <<>>)

\* A plausible slip: the first byte is emitted as a pair of its own and the
\* run is counted from the second byte on.
RLE_compress_firstalone(d) ==
    IF d = <<>> THEN <<>>
    ELSE <<1, d[1]>> \o (IF Len(d) = 1 THEN <<>> ELSE RLE_compress_loop(d, 2, <<>>))

RLE_compress(d) ==
    IF d = <<>> THEN <<>> ELSE RLE_compress_loop(d, 1, <<>>)

\* The for loop of RLE.decompress; i is the 0-based index of the count byte.
RECURSIVE RLE_decompress_loop(_, _, _)
RLE_decompress_loop(cd, i, out) ==
    IF i >= Len(cd) THEN out
    ELSE IF i + 1 < Len(cd)
         THEN RLE_decompress_loop(cd, i + 2, out \o Rep(cd[i + 2], cd[i + 1]))
         ELSE RLE_decompress_loop(cd, i + 2, out)

RLE_decompress(cd) ==
    IF cd = <<>> THEN Returned(<<>>) ELSE Returned(RLE_decompress_loop(cd, 0, <<>>))

\* The concatenation of the sequences ss[lo], ..., ss[hi], by halves.
RECURSIVE FlattenRange(_, _, _)
FlattenRange(ss, lo, hi) ==
    IF lo > hi THEN <<>>
    ELSE IF lo = hi THEN ss[lo]
    ELSE FlattenRange(ss, lo, (lo + hi) \div 2) \o FlattenRange(ss, (lo + hi) \div 2 + 1, hi)

Flatten(ss) == FlattenRange(ss, 1, Len(ss))

-----------------------------------------------------------------------------
(* Python dicts: a sequence of <<key, value>> pairs in insertion order. *)

DictKeys(d) == {d[i][1] : i \in 1..Len(d)}
DictHas(d, k) == \E i \in 1..Len(d) : d[i][1] = k
DictGet(d, k) == d[CHOOSE i \in 1..Len(d) : d[i][1] = k][2]
\* d[k] = v: an existing key keeps its place, a new key goes last.
DictSet(d, k, v) ==
    IF DictHas(d, k)
    THEN [i \in 1..Len(d) |-> IF d[i][1] = k THEN <<k, v>> ELSE d[i]]
    ELSE Append(d, <<k, v>>)

-----------------------------------------------------------------------------
(* heapq on a list of HuffmanNode, ordered by HuffmanNode.__lt__ (freq only). *)
(* Positions are 0-based as in heapq; At and Put translate to the sequence.   *)

\* A HuffmanNode: char is a byte, or NoChar for an internal node (char None);
\* kids is <<>> for left = right = None, or <<left, right>>.
NoChar == -1
HuffmanNode(char, freq) == [char |-> char, freq |-> freq, kids |-> <<>>]
NodeLt(a, b) == a.freq < b.freq

At(h, pos) == h[pos + 1]
Put(h, pos, item) == [h EXCEPT ![pos + 1] = item]
\* (pos - 1) >> 1
ParentPos(pos) == (pos - 1) \div 2

RECURSIVE siftdown_loop(_, _, _, _)
siftdown_loop(h, startpos, pos, newitem) ==
    IF pos > startpos /\ NodeLt(newitem, At(h, ParentPos(pos)))
    THEN siftdown_loop(Put(h, pos, At(h, ParentPos(pos))), startpos, ParentPos(pos), newitem)
    ELSE Put(h, pos, newitem)

siftdown(h, startpos, pos) == siftdown_loop(h, startpos, pos, At(h, pos))

RECURSIVE siftup_loop(_, _, _, _)
siftup_loop(h, startpos, pos, newitem) ==
    LET endpos == Len(h)
        childpos == 2 * pos + 1
        rightpos == childpos + 1
        pick == IF rightpos < endpos /\ ~NodeLt(At(h, childpos), At(h, rightpos))
                THEN rightpos ELSE childpos
    IN IF childpos < endpos
       THEN siftup_loop(Put(h, pos, At(h, pick)), startpos, pick, newitem)
       ELSE siftdown(Put(h, pos, newitem), startpos, pos)

siftup(h, pos) == siftup_loop(h, pos, pos, At(h, pos))

heappush(h, item) == siftdown(Append(h, item), 0, Len(h))

\* heappop returns the item and leaves the heap one shorter.
heappop(h) ==
    LET lastelt == h[Len(h)]
        rest == SubSeq(h, 1, Len(h) - 1)
    IN IF rest # <<>>
       THEN [item |-> rest[1], heap |-> siftup(Put(rest, 0, lastelt), 0)]
       ELSE [item |-> lastelt, heap |-> rest]

-----------------------------------------------------------------------------
(* HuffmanCoding (algorithms.py, class HuffmanCoding) *)

\* The fields set by HuffmanCoding.__init__.
\* id stands for the identity of the Python object; RLE and LZW have no fields.
NewHuffmanCoding(id) ==
    [kind |-> "HuffmanCoding", id |-> id, heap |-> <<>>, codes |-> <<>>, reverse_mapping |-> <<>>]
NewRLE(id) ==
    [kind |-> "RLE", id |-> id, heap |-> <<>>, codes |-> <<>>, reverse_mapping |-> <<>>]
NewLZW(id) ==
    [kind |-> "LZW", id |-> id, heap |-> <<>>, codes |-> <<>>, reverse_mapping |-> <<>>]

\* Counter(data): byte -> number of occurrences, keys in order of first occurrence.
RECURSIVE Counter_loop(_, _, _)
Counter_loop(d, i, freq) ==
    IF i > Len(d) THEN freq
    ELSE Counter_loop(d, i + 1,
            DictSet(freq, d[i], IF DictHas(freq, d[i]) THEN DictGet(freq, d[i]) + 1 ELSE 1))

make_frequency_dict(d) == Counter_loop(d, 1, <<>>)

RECURSIVE make_heap_loop(_, _, _)
make_heap_loop(h, frequency, i) ==
    IF i > Len(frequency) THEN h
    ELSE make_heap_loop(heappush(h, HuffmanNode(frequency[i][1], frequency[i][2])),
                        frequency, i + 1)

make_heap(h, frequency) == make_heap_loop(h, frequency, 1)

\* _merge_nodes: while more than one node is on the heap, pop node1, pop node2,
\* push the node merged from them (left = node1, right = node2).
RECURSIVE merge_nodes(_)
merge_push(p1, p2) ==
    merge_nodes(heappush(p2.heap, [char |-> NoChar, freq |-> p1.item.freq + p2.item.freq,
                                   kids |-> <<p1.item, p2.item>>]))
merge_pop2(p1) == merge_push(p1, heappop(p1.heap))
merge_nodes(h) == IF Len(h) > 1 THEN merge_pop2(heappop(h)) ELSE h

\* A plausible slip: the right child is given current_code without the "1".
RECURSIVE CodeAssignments_noright(_, _)
CodeAssignments_noright(root, current_code) ==
    (IF root.char # NoChar THEN <<<<root.char, current_code>>>> ELSE <<>>)
    \o (IF root.kids = <<>> THEN <<>>
        ELSE CodeAssignments_noright(root.kids[1], current_code \o <<0>>)
             \o CodeAssignments_noright(root.kids[2], current_code))

\* The assignments _make_codes makes below root, in the order it makes them
\* (pre-order, left before right): <<char, code>> for every node with a char.
RECURSIVE CodeAssignments(_, _)
CodeAssignments(root, current_code) ==
    (IF root.char # NoChar THEN <<<<root.char, current_code>>>> ELSE <<>>)
    \o (IF root.kids = <<>> THEN <<>>
        ELSE CodeAssignments(root.kids[1], current_code \o <<0>>)
             \o CodeAssignments(root.kids[2], current_code \o <<1>>))

\* d after d[k] = v for each <<k, v>> of assignments, in order; no key is
\* assigned twice (the leaves of one tree differ in char and in code).
DictAssign(d, assignments) ==
    LET new(k) == LET at == {j \in 1..Len(assignments) : assignments[j][1] = k}
                  IN IF at = {} THEN <<>> ELSE <<assignments[CHOOSE j \in at : TRUE][2]>>
    IN [i \in 1..Len(d) |-> IF new(d[i][1]) = <<>> THEN d[i] ELSE <<d[i][1], new(d[i][1])[1]>>]
       \o SelectSeq(assignments, LAMBDA a : ~DictHas(d, a[1]))

Swap(pairs) == [i \in 1..Len(pairs) |-> <<pairs[i][2], pairs[i][1]>>]

\* _make_codes(root, current_code) on the pair (codes, reverse_mapping) of the
\* instance: self.codes[char] = code and self.reverse_mapping[code] = char for
\* every leaf; entries of earlier calls stay unless assigned again.
make_codes_assign(tables, assignments) ==
    [codes |-> DictAssign(tables.codes, assignments),
     reverse_mapping |-> DictAssign(tables.reverse_mapping, Swap(assignments))]

make_codes(tables, root, current_code) ==
    make_codes_assign(tables, CodeAssignments(root, current_code))

\* The concatenation of the codes of the bytes of d.
get_encoded_text(codes, d) == Flatten([i \in 1..Len(d) |-> DictGet(codes, d[i])])

\* format(n, "08b"): the 8 bits of n, most significant first (n < 256).
Format08b(n) == [i \in 1..8 |-> (n \div (2 ^ (8 - i))) % 2]

\* int(bits, 2)
RECURSIVE Int2(_)
Int2(bits) ==
    IF bits = <<>> THEN 0 ELSE 2 * Int2(SubSeq(bits, 1, Len(bits) - 1)) + bits[Len(bits)]

pad_encoded_text(encoded_text) ==
    LET p == 8 - (Len(encoded_text) % 8)
        padding == IF p = 8 THEN 0 ELSE p
    IN Format08b(padding) \o encoded_text \o Rep(0, padding)

\* The loop of compress turning the padded bit string into bytes, 8 bits at a time.
PackBits(bits) ==
    [k \in 1..((Len(bits) + 7) \div 8) |->
        Int2(SubSeq(bits, 8 * (k - 1) + 1, IF 8 * k <= Len(bits) THEN 8 * k ELSE Len(bits)))]

\* The concatenation of format(byte, "08b") over the bytes of d.
bytes_to_binary(d) == Flatten([i \in 1..Len(d) |-> Format08b(d[i])])

\* A plausible slip: the padding descriptor is dropped but the padding bits stay.
remove_padding_nostrip(bit_string) == SubSeq(bit_string, 9, Len(bit_string))

\* bit_string[8:], then bit_string[:-padding] when padding > 0 (a slice never raises).
remove_padding(bit_string) ==
    LET padding == Int2(SubSeq(bit_string, 1, 8))
        body == SubSeq(bit_string, 9, Len(bit_string))
    IN IF padding > 0
       THEN SubSeq(body, 1, IF Len(body) > padding THEN Len(body) - padding ELSE 0)
       ELSE body

\* The for loop of _decode_text, one decoded byte per level: with current_code
\* empty before position i, the loop appends bits until current_code is a key
\* of reverse_mapping, which happens at the first j >= i with
\* encoded_text[i..j] a key; bits left at the end without a match are dropped.
MatchAt(encoded_text, reverse_mapping, i) ==
    LET hits == {j \in i..Len(encoded_text) :
                    DictHas(reverse_mapping, SubSeq(encoded_text, i, j))}
    IN IF hits = {} THEN 0 ELSE CHOOSE j \in hits : \A k \in hits : j <= k

RECURSIVE decode_text_loop(_, _, _, _)
decode_text_loop(encoded_text, reverse_mapping, i, decoded) ==
    LET j == MatchAt(encoded_text, reverse_mapping, i)
    IN IF i > Len(encoded_text) \/ j = 0 THEN decoded
       ELSE decode_text_loop(encoded_text, reverse_mapping, j + 1,
                Append(decoded, DictGet(reverse_mapping, SubSeq(encoded_text, i, j))))

decode_text(encoded_text, reverse_mapping) ==
    decode_text_loop(encoded_text, reverse_mapping, 1, <<>>)

\* The part of HuffmanCoding.compress between the empty-input return and pickle.dumps:
\* the instance afterwards, and the tuple (bytes(byte_array), self.reverse_mapping).
\* popped is the outcome of heappop(self.heap) (the root and the heap left),
\* tables the instance's codes and reverse_mapping after _make_codes.
Huffman_encode_pack(self, d, popped, tables) ==
    [self |-> [self EXCEPT !.heap = popped.heap, !.codes = tables.codes,
                           !.reverse_mapping = tables.reverse_mapping],
     packed |-> PackBits(pad_encoded_text(get_encoded_text(tables.codes, d))),
     table |-> tables.reverse_mapping]

Huffman_encode_codes(self, d, popped) ==
    Huffman_encode_pack(self, d, popped,
        make_codes([codes |-> self.codes, reverse_mapping |-> self.reverse_mapping],
                   popped.item, <<>>))

Huffman_encode(self, d) ==
    Huffman_encode_codes(self, d,
        heappop(merge_nodes(make_heap(self.heap, make_frequency_dict(d)))))

-----------------------------------------------------------------------------
(* pickle.dumps / pickle.loads, for the two shapes of object the codecs     *)
(* pickle: a list of integers (LZW) and a tuple (bytes, dict) (Huffman).    *)
(* The byte layout is the model's own (a tag byte, then length-prefixed     *)
(* fields, lengths and integers as two bytes, big-endian); what matters to  *)
(* the callers is that loads parses what dumps wrote and raises on the rest.*)

U16(n) == <<n \div 256, n % 256>>
FromU16(b, at) == 256 * b[at] + b[at + 1]

\* pickle.dumps(result) for a list of codes: the tag ']' and the codes.
PickleDumpsList(codes) ==
    <<93>> \o U16(Len(codes)) \o Flatten([i \in 1..Len(codes) |-> U16(codes[i])])

\* One (code string, byte) item of the dict: the str of '0'/'1' characters, then the byte.
PickleItem(item) ==
    U16(Len(item[1])) \o [i \in 1..Len(item[1]) |-> 48 + item[1][i]] \o <<item[2]>>

\* pickle.dumps((packed_bytes, reverse_mapping)): the tag '(' and the two fields.
PickleDumpsTuple(packed, table) ==
    <<40>> \o U16(Len(packed)) \o packed
           \o U16(Len(table)) \o Flatten([i \in 1..Len(table) |-> PickleItem(table[i])])

PickleError == [ok |-> FALSE, type |-> "none", list |-> <<>>, packed |-> <<>>, table |-> <<>>]

\* The n dict items starting at position `at` of b, or failure.
RECURSIVE LoadItems(_, _, _, _)
LoadItems(b, at, n, table) ==
    IF n = 0 THEN (IF at = Len(b) + 1 THEN [ok |-> TRUE, table |-> table]
                   ELSE [ok |-> FALSE, table |-> <<>>])
    ELSE IF at + 1 > Len(b) THEN [ok |-> FALSE, table |-> <<>>]
    ELSE LET k == FromU16(b, at)
         IN IF at + 2 + k > Len(b)
               \/ \E i \in 1..k : b[at + 1 + i] \notin {48, 49}
            THEN [ok |-> FALSE, table |-> <<>>]
            ELSE LoadItems(b, at + 3 + k, n - 1,
                    Append(table, <<[i \in 1..k |-> b[at + 1 + i] - 48], b[at + 2 + k]>>))

LoadedTuple(packed, items) ==
    IF ~items.ok THEN PickleError
    ELSE [ok |-> TRUE, type |-> "tuple", list |-> <<>>, packed |-> packed, table |-> items.table]

PickleLoads(b) ==
    IF Len(b) < 3 THEN PickleError
    ELSE IF b[1] = 93
    THEN LET n == FromU16(b, 2)
         IN IF Len(b) # 3 + 2 * n THEN PickleError
            ELSE [ok |-> TRUE, type |-> "list",
                  list |-> [i \in 1..n |-> FromU16(b, 2 + 2 * i)],
                  packed |-> <<>>, table |-> <<>>]
    ELSE IF b[1] = 40
    THEN LET m == FromU16(b, 2)
         IN IF Len(b) < 5 + m THEN PickleError
            ELSE LoadedTuple(SubSeq(b, 4, 3 + m), LoadItems(b, 6 + m, FromU16(b, 4 + m), <<>>))
    ELSE PickleError

-----------------------------------------------------------------------------
(* HuffmanCoding.compress and HuffmanCoding.decompress *)

\* compress: the instance afterwards and the bytes returned.
Huffman_dump(e) == [self |-> e.self, out |-> PickleDumpsTuple(e.packed, e.table)]

Huffman_compress(self, d) ==
    IF d = <<>> THEN [self |-> self, out |-> PickleDumpsTuple(<<>>, <<>>)]
    ELSE Huffman_dump(Huffman_encode(self, d))

\* The part of decompress after pickle.loads has given (byte_array, reverse_mapping).
Huffman_decode(byte_array, reverse_mapping) ==
    IF byte_array = <<>> THEN <<>>
    ELSE decode_text(remove_padding(bytes_to_binary(byte_array)), reverse_mapping)

\* decompress on obj, the outcome of pickle.loads(compressed_data).
Huffman_decompress_obj(obj) ==
    IF ~obj.ok THEN Raised("UnpicklingError")
    ELSE IF obj.type = "tuple" THEN Returned(Huffman_decode(obj.packed, obj.table))
    \* a pickled list: unpacking needs exactly two items, and an int is then
    \* falsy (0: return b'') or not iterable
    ELSE IF Len(obj.list) # 2 THEN Raised("ValueError")
    ELSE IF obj.list[1] = 0 THEN Returned(<<>>)
    ELSE Raised("TypeError")

Huffman_decompress(compressed_data) == Huffman_decompress_obj(PickleLoads(compressed_data))

-----------------------------------------------------------------------------
(* LZW (algorithms.py, class LZW) *)

\* {bytes([i]): i for i in range(256)}
InitialEncoderDictionary == [i \in 1..256 |-> <<<<i - 1>>, i - 1>>]
\* {i: bytes([i]) for i in range(256)}
InitialDecoderDictionary == [i \in 1..256 |-> <<i - 1, <<i - 1>>>>]

\* A plausible slip: dict_size is incremented before the new string is entered,
\* so the first new string gets the code 257.
RECURSIVE LZW_compress_loop_preincrement(_, _, _, _, _, _)
LZW_compress_loop_preincrement(d, i, dictionary, dict_size, w, res) ==
    IF i > Len(d)
    THEN [result |-> IF w # <<>> THEN Append(res, DictGet(dictionary, w)) ELSE res,
          dictionary |-> dictionary, dict_size |-> dict_size]
    ELSE LET wc == Append(w, d[i])
         IN IF DictHas(dictionary, wc)
            THEN LZW_compress_loop_preincrement(d, i + 1, dictionary, dict_size, wc, res)
            ELSE LZW_compress_loop_preincrement(d, i + 1,
                                   DictSet(dictionary, wc, dict_size + 1),
                                   dict_size + 1, <<d[i]>>,
                                   Append(res, DictGet(dictionary, w)))

\* The for loop of LZW.compress over data[1:], and the final append.
RECURSIVE LZW_compress_loop(_, _, _, _, _, _)
LZW_compress_loop(d, i, dictionary, dict_size, w, res) ==
    IF i > Len(d)
    THEN [result |-> IF w # <<>> THEN Append(res, DictGet(dictionary, w)) ELSE res,
          dictionary |-> dictionary, dict_size |-> dict_size]
    ELSE LET wc == Append(w, d[i])
         IN IF DictHas(dictionary, wc)
            THEN LZW_compress_loop(d, i + 1, dictionary, dict_size, wc, res)
            ELSE LZW_compress_loop(d, i + 1, DictSet(dictionary, wc, dict_size),
                                   dict_size + 1, <<d[i]>>,
                                   Append(res, DictGet(dictionary, w)))

\* The code list LZW.compress builds for non-empty data, with the final dictionary.
LZW_encode(d) == LZW_compress_loop(d, 2, InitialEncoderDictionary, 256, <<d[1]>>, <<>>)

LZW_compress(d) ==
    IF d = <<>> THEN PickleDumpsList(<<>>) ELSE PickleDumpsList(LZW_encode(d).result)

LZWState(status, error, res, dictionary, dict_size) ==
    [status |-> status, error |-> error, value |-> res,
     dictionary |-> dictionary, dict_size |-> dict_size]

\* A plausible slip: the decoder without the k == dict_size branch.
RECURSIVE LZW_decompress_loop_noself(_, _, _, _, _, _)
LZW_decompress_loop_noself(codes, i, dictionary, dict_size, w, res) ==
    IF i > Len(codes) THEN LZWState("returned", "none", res, dictionary, dict_size)
    ELSE IF ~DictHas(dictionary, codes[i])
         THEN LZWState("raised", "ValueError", <<>>, dictionary, dict_size)
         ELSE LZW_decompress_loop_noself(codes, i + 1,
                  DictSet(dictionary, dict_size, Append(w, DictGet(dictionary, codes[i])[1])),
                  dict_size + 1, DictGet(dictionary, codes[i]),
                  res \o DictGet(dictionary, codes[i]))

\* The for loop of LZW.decompress over compressed[1:].
RECURSIVE LZW_decompress_loop(_, _, _, _, _, _)
LZW_decompress_loop(codes, i, dictionary, dict_size, w, res) ==
    IF i > Len(codes) THEN LZWState("returned", "none", res, dictionary, dict_size)
    ELSE LET k == codes[i]
         IN IF ~DictHas(dictionary, k) /\ k # dict_size
            THEN LZWState("raised", "ValueError", <<>>, dictionary, dict_size)
            ELSE LET entry == IF DictHas(dictionary, k) THEN DictGet(dictionary, k)
                              ELSE Append(w, w[1])
                 IN LZW_decompress_loop(codes, i + 1,
                        DictSet(dictionary, dict_size, Append(w, entry[1])),
                        dict_size + 1, entry, res \o entry)

\* A plausible slip: the dictionary gets no entry in the k == dict_size branch.
LZW_decompress_step_noinsert(st, k) ==
    IF ~DictHas(st.dictionary, k) /\ k # st.dict_size
    THEN [st EXCEPT !.active = FALSE]
    ELSE IF DictHas(st.dictionary, k)
    THEN [st EXCEPT !.pos = st.pos + 1,
                    !.dictionary = DictSet(st.dictionary, st.dict_size,
                                           Append(st.w, DictGet(st.dictionary, k)[1])),
                    !.dict_size = st.dict_size + 1,
                    !.w = DictGet(st.dictionary, k),
                    !.result = st.result \o DictGet(st.dictionary, k)]
    ELSE [st EXCEPT !.pos = st.pos + 1,
                    !.w = Append(st.w, st.w[1]),
                    !.result = st.result \o Append(st.w, st.w[1])]

\* One iteration of the for loop of LZW.decompress, on the locals st and the
\* code k; after a raise the call is no longer active and pos stays.
LZW_decompress_step(st, k) ==
    IF ~DictHas(st.dictionary, k) /\ k # st.dict_size
    THEN [st EXCEPT !.active = FALSE]
    ELSE LET entry == IF DictHas(st.dictionary, k) THEN DictGet(st.dictionary, k)
                      ELSE Append(st.w, st.w[1])
         IN [st EXCEPT !.pos = st.pos + 1,
                       !.dictionary = DictSet(st.dictionary, st.dict_size,
                                              Append(st.w, entry[1])),
                       !.dict_size = st.dict_size + 1,
                       !.w = entry,
                       !.result = st.result \o entry]

\* The locals of LZW.decompress when its for loop starts: the first code taken.
LZW_decompress_start(codes) ==
    [active |-> TRUE, codes |-> codes, pos |-> 1,
     dictionary |-> InitialDecoderDictionary, dict_size |-> 256,
     w |-> DictGet(InitialDecoderDictionary, codes[1]),
     result |-> DictGet(InitialDecoderDictionary, codes[1])]

\* LZW.decompress on the unpickled code list: the outcome and the decoder's dictionary.
LZW_decode(codes) ==
    IF codes = <<>> THEN LZWState("returned", "none", <<>>, <<>>, 0)
    ELSE IF ~DictHas(InitialDecoderDictionary, codes[1])
    THEN LZWState("raised", "KeyError", <<>>, InitialDecoderDictionary, 256)
    ELSE LZW_decompress_loop(codes, 2, InitialDecoderDictionary, 256,
                             DictGet(InitialDecoderDictionary, codes[1]),
                             DictGet(InitialDecoderDictionary, codes[1]))

Outcome(r) == IF r.status = "returned" THEN Returned(r.value) ELSE Raised(r.error)

\* decompress on obj, the outcome of pickle.loads(compressed_data).
LZW_decompress_obj(obj) ==
    IF ~obj.ok THEN Raised("UnpicklingError")
    \* a pickled tuple is truthy and its item 0, a bytes object, is no key
    ELSE IF obj.type = "tuple" THEN Raised("KeyError")
    ELSE Outcome(LZW_decode(obj.list))

LZW_decompress(compressed_data) == LZW_decompress_obj(PickleLoads(compressed_data))

-----------------------------------------------------------------------------
(* Calls through the CompressionAlgorithm interface (dynamic dispatch). *)

\* algorithm.compress(data): the instance afterwards and the bytes returned.
CodecCompress(self, d) ==
    CASE self.kind = "RLE" -> [self |-> self, out |-> RLE_compress(d)]
      [] self.kind = "HuffmanCoding" -> Huffman_compress(self, d)
      [] self.kind = "LZW" -> [self |-> self, out |-> LZW_compress(d)]

\* algorithm.decompress(compressed_data): no decompress method writes a field.
CodecDecompress(self, cd) ==
    CASE self.kind = "RLE" -> RLE_decompress(cd)
      [] self.kind = "HuffmanCoding" -> Huffman_decompress(cd)
      [] self.kind = "LZW" -> LZW_decompress(cd)

-----------------------------------------------------------------------------
(* The codecs on their own: one instance, an input, compress, decompress.   *)

NoPayload == [src |-> "none", bytes |-> <<>>]

\* No LZW.decompress call is running code by code.
NotDecoding ==
    [active |-> FALSE, codes |-> <<>>, pos |-> 0, dictionary |-> <<>>, dict_size |-> 0,
     w |-> <<>>, result |-> <<>>]

\* The state of the file-level variables when no Compressor is in play.
NoCodec == [kind |-> "none", id |-> 0, heap |-> <<>>, codes |-> <<>>, reverse_mapping |-> <<>>]
NoCompressor == [algorithm |-> NoCodec, algorithm_name |-> <<>>]
NoLookup == [made |-> FALSE, name |-> <<>>, status |-> "idle", error |-> "none",
             instance |-> NoCodec]
NoHeader == [algorithm_name |-> <<>>, ext |-> <<>>, payload |-> <<>>]
NoContainer == [valid |-> FALSE, path |-> <<>>, data |-> <<>>, header |-> NoHeader]
\* The record of a call: its arguments, its outcome, the locals the properties
\* speak of, `made`, the container the last successful compress_file wrote
\* (valid while that file has not been written again), and `source`, that
\* container when the call read it.
NoCall ==
    [op |-> "none", name |-> <<>>, input_file |-> <<>>, output_file |-> <<>>,
     status |-> "idle", error |-> "none", lookup |-> NoLookup, header |-> NoHeader,
     data |-> <<>>, decoder |-> "none", made |-> NoContainer, source |-> NoContainer]
FileIdle ==
    /\ fs = <<>>
    /\ compressor = NoCompressor
    /\ allocated = 0
    /\ last = NoCall

RLEInputs == ShortInputs \cup LongInputs

\* Payloads not produced by RLE.compress: any bytes, counts and values mixed.
RLERawPayloads == SeqsUpTo({1, 2} \cup Alphabet, MaxRawLen)

\* codec.compress(data) on the instance under test.
Compress ==
    /\ compressed.src = "none"
    /\ LET c == CodecCompress(codec, data)
       IN /\ codec' = c.self
          /\ compressed' = [src |-> "compress", bytes |-> c.out]
    /\ UNCHANGED <<data, result, decoding, fileVars>>

\* codec.decompress(compressed_data) on the instance under test.
Decompress ==
    /\ compressed.src # "none"
    /\ result.status = "idle"
    /\ result' = CodecDecompress(codec, compressed.bytes)
    /\ UNCHANGED <<codec, data, compressed, decoding, fileVars>>

\* An input to compress, or a payload from elsewhere to decompress.
InitCodec(instance, inputs, payloads) ==
    /\ codec = instance
    /\ \/ data \in inputs /\ compressed = NoPayload
       \/ data = <<>> /\ \E p \in payloads : compressed = [src |-> "external", bytes |-> p]
    /\ result = NotCalled
    /\ decoding = NotDecoding
    /\ FileIdle

InitRLE == InitCodec(NewRLE(0), RLEInputs, RLERawPayloads)

NextRLE == Compress \/ Decompress

SpecRLE == InitRLE /\ [][NextRLE]_vars

\* The round trip has run: compress, then decompress of what it returned.
RoundTripDone == compressed.src = "compress" /\ result.status # "idle"

\* C2: RLE round trip. Decompressing what RLE.compress returned for data gives
\* back data, for every input, the empty one and runs longer than 255 included.
C2_RLERoundTrip ==
    (codec.kind = "RLE" /\ RoundTripDone) => result = Returned(data)

\* A round trip of an input with a run longer than 255 that took more than one pair.
C2_Witness ==
    /\ codec.kind = "RLE" /\ RoundTripDone
    /\ Len(data) > MaxCount + 1
    /\ \E i \in 1..Len(compressed.bytes) : i % 2 = 1 /\ compressed.bytes[i] = MaxCount
    /\ result = Returned(data)

\* C10: RLE.decompress of an odd-length payload raises (MalformedPayload) and
\* returns nothing.
C10_OddLengthRaises ==
    (codec.kind = "RLE" /\ result.status # "idle" /\ Len(compressed.bytes) % 2 = 1)
        => result.status = "raised"

\* C18: RLE expansion bound. The payload is never longer than twice the input,
\* and is exactly twice the input if and only if no two adjacent bytes of the
\* input are equal; the empty input gives the empty payload.
C18_ExpansionBound ==
    (codec.kind = "RLE" /\ compressed.src = "compress") =>
        /\ Len(compressed.bytes) <= 2 * Len(data)
        /\ Len(compressed.bytes) = 2 * Len(data)
              <=> \A i \in 1..(Len(data) - 1) : data[i] # data[i + 1]
        /\ data = <<>> => compressed.bytes = <<>>

\* An input with a byte value twice, but never twice in a row, took two
\* payload bytes per input byte.
C18_Witness ==
    /\ codec.kind = "RLE" /\ compressed.src = "compress"
    /\ Len(data) >= 3 /\ data[1] = data[3] /\ data[1] # data[2]
    /\ Len(compressed.bytes) = 2 * Len(data)

\* The sum of the count bytes of the pairs from the n-th on.
RECURSIVE SumCounts(_, _)
SumCounts(cd, n) ==
    IF 2 * n > Len(cd) THEN 0 ELSE cd[2 * n - 1] + SumCounts(cd, n + 1)

\* C21: RLE payload invariant. For every input, what RLE.compress returns
\* has even length, every count byte is in 1..255, the counts sum to the
\* length of the input, and two adjacent pairs carry the same value only when
\* the first of them has count 255.
C21_PayloadInvariant ==
    (codec.kind = "RLE" /\ compressed.src = "compress") =>
        LET cd == compressed.bytes
            pairs == Len(cd) \div 2
        IN /\ Len(cd) % 2 = 0
           /\ \A n \in 1..pairs : cd[2 * n - 1] \in 1..MaxCount
           /\ SumCounts(cd, 1) = Len(data)
           /\ \A n \in 1..(pairs - 1) :
                 cd[2 * n] = cd[2 * n + 2] => cd[2 * n - 1] = MaxCount

\* A run longer than 255 between two other bytes was split: the payload holds
\* two adjacent pairs with the same value, the first with count 255, and a
\* pair of another value before and after them.
C21_Witness ==
    /\ codec.kind = "RLE" /\ compressed.src = "compress"
    /\ Len(data) > MaxCount + 2
    /\ Len(compressed.bytes) = 8
    /\ compressed.bytes[3] = MaxCount
    /\ compressed.bytes[4] = compressed.bytes[6]
    /\ compressed.bytes[2] # compressed.bytes[4]
    /\ compressed.bytes[8] # compressed.bytes[6]

-----------------------------------------------------------------------------
(* RLE on inputs made of one repeated byte *)

SingleRuns == {Rep(b, n) : b \in Alphabet, n \in 1..MaxRunLen}

InitRLERuns == InitCodec(NewRLE(0), SingleRuns, {})

NextRLERuns == Compress \/ Decompress

SpecRLERuns == InitRLERuns /\ [][NextRLERuns]_vars

\* C17: RLE encoding of a single run. n copies of a byte b encode to the two
\* bytes (n, b) for n in 1..255, and for n > 255 to floor(n / 255) pairs
\* (255, b) followed by the pair (n mod 255, b) when n mod 255 is not 0.
C17_SingleRun ==
    (codec.kind = "RLE" /\ compressed.src = "compress"
        /\ data # <<>> /\ \A i \in 1..Len(data) : data[i] = data[1])
    => LET n == Len(data)
           b == data[1]
       IN compressed.bytes =
             Flatten([i \in 1..(n \div 255) |-> <<255, b>>])
             \o (IF n % 255 # 0 THEN <<n % 255, b>> ELSE <<>>)

\* 300 x 'A' was encoded to (255, 'A', 45, 'A') and decoded back.
C17_Witness ==
    /\ codec.kind = "RLE" /\ RoundTripDone
    /\ data = Rep(65, 300)
    /\ compressed.bytes = <<255, 65, 45, 65>>
    /\ result = Returned(data)

-----------------------------------------------------------------------------
(* LZW on its own *)

\* Code lists not produced by LZW.compress, pickled.
LZWRawCodes == SeqsUpTo({65, 66, 256, 257, 300}, MaxRawLen)
LZWRawPayloads == {PickleDumpsList(codes) : codes \in LZWRawCodes}

InitLZW == InitCodec(NewLZW(0), ShortInputs, LZWRawPayloads)

NextLZW == Compress \/ Decompress

SpecLZW == InitLZW /\ [][NextLZW]_vars

\* C3: LZW round trip. Decompressing what LZW.compress returned for data gives
\* back data, for every input, the empty one and those whose code stream holds
\* a code equal to the decoder's next code included.
C3_LZWRoundTrip ==
    (codec.kind = "LZW" /\ RoundTripDone) => result = Returned(data)

\* The code list in the payload under test (a pickled list).
PayloadCodes == PickleLoads(compressed.bytes).list

\* A round trip whose code stream holds, at some place after the first, the code
\* the decoder has not yet defined there (256 plus the number of codes decoded
\* after the first).
C3_Witness ==
    /\ codec.kind = "LZW" /\ RoundTripDone
    /\ \E i \in 2..Len(PayloadCodes) : PayloadCodes[i] = 256 + (i - 2)
    /\ result = Returned(data)

\* The code at 1-based position i of a code list is neither in the decoder's
\* dictionary nor its next code there: it is greater than 256 plus the number
\* of codes the loop has taken before it.
BadCodeAt(codes, i) == codes[i] > 256 + (IF i >= 2 THEN i - 2 ELSE 0)

\* C13: LZW.decompress raises the malformed-payload error (ValueError), and
\* returns nothing, whenever the code list holds, at any position, a code that
\* is neither in the decoder's dictionary nor equal to its next code.
C13_BadCodeRaises ==
    (codec.kind = "LZW" /\ result.status # "idle" /\ PickleLoads(compressed.bytes).ok
        /\ \E i \in 1..Len(PayloadCodes) : BadCodeAt(PayloadCodes, i))
    => result = Raised("ValueError")

-----------------------------------------------------------------------------
(* LZW.decompress code by code *)

\* codec.decompress(compressed_data) up to its for loop: pickle.loads, the empty
\* list, the dictionary and the first code. The call ends here when it raises
\* or returns before the loop.
DecodeStart ==
    /\ codec.kind = "LZW"
    /\ compressed.src # "none"
    /\ result.status = "idle"
    /\ ~decoding.active
    /\ \E obj \in {PickleLoads(compressed.bytes)} :
          IF obj.ok /\ obj.type = "list" /\ obj.list # <<>>
             /\ DictHas(InitialDecoderDictionary, obj.list[1])
          THEN decoding' = LZW_decompress_start(obj.list) /\ UNCHANGED result
          ELSE result' = LZW_decompress_obj(obj) /\ UNCHANGED decoding
    /\ UNCHANGED <<codec, data, compressed, fileVars>>

\* One iteration of the for loop, or the return after the last one.
DecodeStep ==
    /\ decoding.active
    /\ IF decoding.pos = Len(decoding.codes)
       THEN /\ result' = Returned(decoding.result)
            /\ decoding' = [decoding EXCEPT !.active = FALSE]
       ELSE \E st \in {LZW_decompress_step(decoding, decoding.codes[decoding.pos + 1])} :
               /\ decoding' = st
               /\ result' = IF st.active THEN result ELSE Raised("ValueError")
    /\ UNCHANGED <<codec, data, compressed, fileVars>>

NextLZWSteps == Compress \/ DecodeStart \/ DecodeStep

SpecLZWSteps == InitLZW /\ [][NextLZWSteps]_vars

\* C20: LZW decoder dictionary growth. After LZW.decompress has taken the
\* first k codes of a stream (k >= 1) without raising, its dictionary has
\* exactly 256 + (k - 1) entries, with the keys 0 .. 255 + (k - 1), and the
\* entries are those that decoding the first k codes alone gives.
C20_DictionaryGrowth ==
    decoding.pos >= 1 =>
        /\ Len(decoding.dictionary) = 256 + (decoding.pos - 1)
        /\ DictKeys(decoding.dictionary) = 0..(255 + (decoding.pos - 1))
        /\ decoding.dictionary =
              LZW_decode(SubSeq(decoding.codes, 1, decoding.pos)).dictionary

\* Three codes of a stream made by LZW.compress were taken, the second by the
\* k == dict_size branch (the code 256 when the dictionary ended at 255).
C20_Witness ==
    /\ compressed.src = "compress"
    /\ decoding.pos = 3
    /\ decoding.codes[2] = 256
    /\ Len(decoding.dictionary) = 258

-----------------------------------------------------------------------------
(* LZW on longer inputs over two byte values *)

LZWLongInputs == SeqsUpTo({65, 66}, MaxLZWLen)

InitLZWLong == InitCodec(NewLZW(0), LZWLongInputs, {})

NextLZWLong == Compress \/ Decompress

SpecLZWLong == InitLZWLong /\ [][NextLZWLong]_vars

\* The encoder's dictionary when LZW.compress(data) returns.
EncoderDictionary == LZW_encode(data).dictionary

\* The dictionary holds dict_size entries whose codes are 0, 1, ... in the
\* order of entry, the strings entered after the 256 single bytes being
\* distinct and longer than one byte.
ConsecutiveCodes(dictionary, dict_size) ==
    /\ Len(dictionary) = dict_size
    /\ \A j \in 1..Len(dictionary) : dictionary[j][2] = j - 1
    /\ \A j, k \in 257..Len(dictionary) : j # k => dictionary[j][1] # dictionary[k][1]
    /\ \A j \in 257..Len(dictionary) : Len(dictionary[j][1]) >= 2

\* The code at 0-based position i is less than 256 + i.
CodesBounded(codes) == \A i \in 1..Len(codes) : codes[i] < 256 + (i - 1)

\* C22: LZW encoder code bound. In the code list LZW.compress returns, the
\* code at 0-based position i is less than 256 + i; the encoder's dictionary
\* gives the codes 256, 257, ... consecutively, in the order the strings are
\* entered, and no code to two strings or two codes to one string; and
\* LZW.decompress of that code list does not raise.
C22_EncoderCodeBound ==
    (codec.kind = "LZW" /\ compressed.src = "compress") =>
        /\ CodesBounded(PayloadCodes)
        /\ data # <<>> => ConsecutiveCodes(EncoderDictionary, LZW_encode(data).dict_size)
        /\ result.status # "idle" => result.status = "returned"

\* A code list whose second and third codes are the largest the bound allows
\* (256 and 257, each the code the decoder has not yet defined there) was made
\* and decoded; the encoder had entered at least three strings.
C22_Witness ==
    /\ codec.kind = "LZW" /\ RoundTripDone
    /\ Len(PayloadCodes) >= 4
    /\ PayloadCodes[2] = 256 /\ PayloadCodes[3] = 257
    /\ Len(EncoderDictionary) >= 259
    /\ result = Returned(data)

-----------------------------------------------------------------------------
(* HuffmanCoding on its own, on a fresh instance *)

\* Payloads not produced by HuffmanCoding.compress: a padding byte and one byte
\* of code bits, over code tables that are empty, complete or incomplete.
HuffmanRawPacked == {<<>>, <<0>>} \cup {<<p, b>> : p \in {0, 1, 6}, b \in {0, 64, 128, 192}}
HuffmanRawTables ==
    { <<>>,
      << <<<<0>>, 65>>, <<<<1>>, 66>> >>,
      << <<<<0>>, 65>>, <<<<1, 0>>, 66>>, <<<<1, 1>>, 67>> >>,
      << <<<<0, 0>>, 65>>, <<<<1>>, 66>> >> }
HuffmanRawPayloads ==
    {PickleDumpsTuple(packed, table) : packed \in HuffmanRawPacked, table \in HuffmanRawTables}

InitHuffman == InitCodec(NewHuffmanCoding(0), ShortInputs, HuffmanRawPayloads)

NextHuffman == Compress \/ Decompress

SpecHuffman == InitHuffman /\ [][NextHuffman]_vars

\* The byte values occurring in a byte string.
Symbols(d) == {d[i] : i \in 1..Len(d)}

\* C4: Huffman round trip on a fresh instance for every input, inputs made of
\* one distinct byte value (such as b"AAAA") included.
C4_HuffmanRoundTrip ==
    (codec.kind = "HuffmanCoding" /\ RoundTripDone) => result = Returned(data)

\* C5: Huffman round trip on a fresh instance for the inputs that are empty or
\* hold at least two distinct byte values; the empty input is serialized as
\* (empty packed bytes, empty code table) and decodes to the empty string.
C5_HuffmanRoundTripTested ==
    (codec.kind = "HuffmanCoding" /\ compressed.src = "compress"
        /\ (data = <<>> \/ Cardinality(Symbols(data)) >= 2))
    => /\ data = <<>> =>
            LET obj == PickleLoads(compressed.bytes)
            IN obj.ok /\ obj.type = "tuple" /\ obj.packed = <<>> /\ obj.table = <<>>
       /\ result.status # "idle" => result = Returned(data)

\* A round trip of an input with three distinct byte values, whose codes differ
\* in length.
C5_Witness ==
    /\ codec.kind = "HuffmanCoding" /\ RoundTripDone
    /\ Cardinality(Symbols(data)) >= 3
    /\ \E i, j \in 1..Len(codec.codes) : Len(codec.codes[i][2]) # Len(codec.codes[j][2])
    /\ result = Returned(data)

\* The bit string a is a prefix of the bit string b.
IsPrefix(a, b) == Len(a) <= Len(b) /\ SubSeq(b, 1, Len(a)) = a

\* The code table of the payload under test (a pickled tuple).
PayloadTable == PickleLoads(compressed.bytes).table

\* C19: Huffman prefix property. For every non-empty input compressed on a
\* fresh instance, the emitted code table holds exactly one code for each
\* distinct byte value of the input, and no code is a prefix of another.
C19_PrefixFree ==
    (codec.kind = "HuffmanCoding" /\ compressed.src = "compress" /\ data # <<>>) =>
        /\ Len(PayloadTable) = Cardinality(Symbols(data))
        /\ {PayloadTable[i][2] : i \in 1..Len(PayloadTable)} = Symbols(data)
        /\ \A i, j \in 1..Len(PayloadTable) :
              i # j => ~IsPrefix(PayloadTable[i][1], PayloadTable[j][1])

\* The table emitted for an input with three distinct byte values holds a code
\* of one bit and codes of two bits.
C19_Witness ==
    /\ codec.kind = "HuffmanCoding" /\ compressed.src = "compress"
    /\ Cardinality(Symbols(data)) = 3
    /\ Len(PayloadTable) = 3
    /\ {Len(PayloadTable[i][1]) : i \in 1..Len(PayloadTable)} = {1, 2}

\* The bits from position i on are a concatenation of keys of the code table.
RECURSIVE SplitsIntoCodes(_, _, _)
SplitsIntoCodes(bits, i, keys) ==
    \/ i > Len(bits)
    \/ \E j \in i..Len(bits) :
          SubSeq(bits, i, j) \in keys /\ SplitsIntoCodes(bits, j + 1, keys)

\* The unpadded bit stream of the payload under test (a pickled tuple).
PayloadBits == remove_padding(bytes_to_binary(PickleLoads(compressed.bytes).packed))

\* C14: HuffmanCoding.decompress raises the malformed-payload error when the
\* unpadded bit stream holds bits that match no key of the code table, bits
\* left unmatched at the end included; it never returns a shorter output.
C14_UnmatchedBitsRaise ==
    (codec.kind = "HuffmanCoding" /\ result.status # "idle"
        /\ PickleLoads(compressed.bytes).ok
        /\ PickleLoads(compressed.bytes).type = "tuple"
        /\ PickleLoads(compressed.bytes).packed # <<>>
        /\ ~SplitsIntoCodes(PayloadBits, 1, DictKeys(PickleLoads(compressed.bytes).table)))
    => result.status = "raised"

-----------------------------------------------------------------------------
(* HuffmanCoding reused: earlier compress calls on the same instance, as when *)
(* one Compressor('huffman') compresses several files.                        *)

\* codec.compress(e) on the instance under test, before the call under test;
\* what it returned is not kept.
CompressEarlier ==
    /\ compressed.src = "none"
    /\ Len(codec.reverse_mapping) < MaxEarlierCodes
    /\ \E e \in ShortInputs : codec' = CodecCompress(codec, e).self
    /\ UNCHANGED <<data, compressed, result, decoding, fileVars>>

NextHuffmanReuse == CompressEarlier \/ Compress \/ Decompress

SpecHuffmanReuse == InitHuffman /\ [][NextHuffmanReuse]_vars

\* C16: Huffman reuse does not leak state. After any earlier compress calls on
\* the same instance, compress(data) returns the payload (packed bytes and code
\* table) a fresh instance returns for data, and decompress gives back data.
C16_ReuseAsFresh ==
    (codec.kind = "HuffmanCoding" /\ compressed.src = "compress"
        /\ (data = <<>> \/ Cardinality(Symbols(data)) >= 2))
    => /\ compressed.bytes = Huffman_compress(NewHuffmanCoding(0), data).out
       /\ result.status # "idle" => result = Returned(data)

-----------------------------------------------------------------------------
(* Text: str.lower, str.encode('utf-8'), bytes.decode('utf-8')              *)
(* A str is a sequence of code points; the model covers code points below  *)
(* 2048 (one- and two-byte UTF-8).                                          *)

\* str.lower(): the ASCII capitals 'A'..'Z' become 'a'..'z'.
Lower(s) == [i \in 1..Len(s) |-> IF s[i] \in 65..90 THEN s[i] + 32 ELSE s[i]]

Utf8Encode(s) ==
    Flatten([i \in 1..Len(s) |->
        IF s[i] < 128 THEN <<s[i]>> ELSE <<192 + (s[i] \div 64), 128 + (s[i] % 64)>>])

\* bytes.decode('utf-8') on b[lo..hi], byte by byte: fails on a stray
\* continuation byte, an overlong or truncated sequence, and (in the model) on
\* every lead byte of a longer form.
RECURSIVE Utf8Decode_loop(_, _, _, _)
Utf8Decode_loop(b, i, hi, text) ==
    IF i > hi THEN [ok |-> TRUE, text |-> text]
    ELSE IF b[i] < 128 THEN Utf8Decode_loop(b, i + 1, hi, Append(text, b[i]))
    ELSE IF b[i] \in 194..223 /\ i + 1 <= hi /\ b[i + 1] \in 128..191
    THEN Utf8Decode_loop(b, i + 2, hi, Append(text, 64 * (b[i] - 192) + (b[i + 1] - 128)))
    ELSE [ok |-> FALSE, text |-> <<>>]

\* The same on a long range, by halves; a half never ends between a lead byte
\* and its continuation byte, so the halves decode as the whole does.
RECURSIVE Utf8Decode_range(_, _, _)
Utf8Decode_range(b, lo, hi) ==
    IF hi - lo < 3 THEN Utf8Decode_loop(b, lo, hi, <<>>)
    ELSE LET m == (lo + hi) \div 2
             mid == IF b[m + 1] \in 128..191 THEN m + 1 ELSE m
             l == Utf8Decode_range(b, lo, mid)
             r == Utf8Decode_range(b, mid + 1, hi)
         IN IF l.ok /\ r.ok THEN [ok |-> TRUE, text |-> l.text \o r.text]
            ELSE [ok |-> FALSE, text |-> <<>>]

Utf8Decode(b) == Utf8Decode_range(b, 1, Len(b))

\* The names of the registry, as str: 'rle', 'huffman', 'lzw'.
Name_rle == <<114, 108, 101>>
Name_huffman == <<104, 117, 102, 102, 109, 97, 110>>
Name_lzw == <<108, 122, 119>>

-----------------------------------------------------------------------------
(* get_algorithm (algorithms.py) *)

\* The dict built on every call: three new instances, created in this order.
RegistryDict(alloc) ==
    << <<Name_rle, NewRLE(alloc + 1)>>,
       <<Name_huffman, NewHuffmanCoding(alloc + 2)>>,
       <<Name_lzw, NewLZW(alloc + 3)>> >>

\* A plausible slip: the dict is built once, at import, and shared by all calls.
get_algorithm_shared(name, alloc) ==
    IF ~DictHas(RegistryDict(0), Lower(name))
    THEN [status |-> "raised", error |-> "ValueError: Unknown algorithm",
          instance |-> NoCodec, allocated |-> alloc]
    ELSE [status |-> "returned", error |-> "none",
          instance |-> DictGet(RegistryDict(0), Lower(name)), allocated |-> alloc]

\* A plausible slip: the name is looked up as given, without lower().
get_algorithm_exact(name, alloc) ==
    IF ~DictHas(RegistryDict(alloc), name)
    THEN [status |-> "raised", error |-> "ValueError: Unknown algorithm",
          instance |-> NoCodec, allocated |-> alloc + 3]
    ELSE [status |-> "returned", error |-> "none",
          instance |-> DictGet(RegistryDict(alloc), name), allocated |-> alloc + 3]

\* get_algorithm(name), with alloc instances created before the call: the
\* outcome, the instance returned, and the number of instances created after it.
get_algorithm(name, alloc) ==
    IF ~DictHas(RegistryDict(alloc), Lower(name))
    THEN [status |-> "raised", error |-> "ValueError: Unknown algorithm",
          instance |-> NoCodec, allocated |-> alloc + 3]
    ELSE [status |-> "returned", error |-> "none",
          instance |-> DictGet(RegistryDict(alloc), Lower(name)), allocated |-> alloc + 3]

Lookup(name, g) ==
    [made |-> TRUE, name |-> name, status |-> g.status, error |-> g.error,
     instance |-> g.instance]

-----------------------------------------------------------------------------
(* Paths: os.path.splitext (posixpath) *)

\* str.rfind(ch), 1-based; 0 when ch does not occur.
RFind(s, ch) ==
    LET at == {i \in 1..Len(s) : s[i] = ch}
    IN IF at = {} THEN 0 ELSE CHOOSE i \in at : \A j \in at : j <= i

\* os.path.splitext(p): <<root, ext>>. The extension starts at the last dot of
\* the last path component, unless only dots precede it in that component.
splitext(p) ==
    LET sepIndex == RFind(p, 47)
        dotIndex == RFind(p, 46)
    IN IF dotIndex > sepIndex /\ \E i \in (sepIndex + 1)..(dotIndex - 1) : p[i] # 46
       THEN <<SubSeq(p, 1, dotIndex - 1), SubSeq(p, dotIndex, Len(p))>>
       ELSE <<p, <<>>>>

-----------------------------------------------------------------------------
(* Compressor (compressor.py) *)

\* MAGIC = b'CMPR'
MAGIC == <<67, 77, 80, 82>>
VERSION == 1
\* The largest value struct.pack('B', n) accepts.
MaxUByte == 255

\* '.cmp' and '.decompressed'
Suffix_cmp == <<46, 99, 109, 112>>
Suffix_decompressed == <<46, 100, 101, 99, 111, 109, 112, 114, 101, 115, 115, 101, 100>>

\* An optional argument: None, or a path.
None == [given |-> FALSE, path |-> <<>>]
Some(path) == [given |-> TRUE, path |-> path]

\* A plausible slip: the name is stored as given, without lower().
Compressor_init_nolower(algorithm_name, alloc) ==
    LET g == get_algorithm(algorithm_name, alloc)
    IN [status |-> g.status, error |-> g.error, lookup |-> Lookup(algorithm_name, g),
        allocated |-> g.allocated,
        self |-> IF g.status = "raised" THEN NoCompressor
                 ELSE [algorithm |-> g.instance, algorithm_name |-> algorithm_name]]

\* Compressor.__init__(algorithm_name): the new instance, unless get_algorithm raised.
Compressor_init(algorithm_name, alloc) ==
    LET g == get_algorithm(algorithm_name, alloc)
    IN [status |-> g.status, error |-> g.error, lookup |-> Lookup(algorithm_name, g),
        allocated |-> g.allocated,
        self |-> IF g.status = "raised" THEN NoCompressor
                 ELSE [algorithm |-> g.instance, algorithm_name |-> Lower(algorithm_name)]]

\* A plausible slip: the length byte counts the characters of the extension,
\* not its encoded bytes.
WriteContainer_charlen(algorithm_name, ext_text, compressed_data) ==
    [status |-> "returned", error |-> "none",
     bytes |-> MAGIC \o <<VERSION>> \o <<Len(Utf8Encode(algorithm_name))>>
               \o Utf8Encode(algorithm_name) \o <<Len(ext_text)>> \o Utf8Encode(ext_text)
               \o compressed_data]

\* The with block of compress_file: what the output file holds when it is
\* closed, and whether a struct.pack('B', ...) raised on the way.
WriteContainer(algorithm_name, ext_text, compressed_data) ==
    LET algo_bytes == Utf8Encode(algorithm_name)
        ext == Utf8Encode(ext_text)
        head == MAGIC \o <<VERSION>>
    IN IF Len(algo_bytes) > MaxUByte
       THEN [status |-> "raised", error |-> "struct.error", bytes |-> head]
       ELSE IF Len(ext) > MaxUByte
       THEN [status |-> "raised", error |-> "struct.error",
             bytes |-> head \o <<Len(algo_bytes)>> \o algo_bytes]
       ELSE [status |-> "returned", error |-> "none",
             bytes |-> head \o <<Len(algo_bytes)>> \o algo_bytes
                       \o <<Len(ext)>> \o ext \o compressed_data]

\* files with the file at path (re)written to hold bytes.
WriteFile(files, path, bytes) ==
    [q \in DOMAIN files \cup {path} |-> IF q = path THEN bytes ELSE files[q]]

\* The end of compress_file, with c the outcome of self.algorithm.compress(data)
\* and w the outcome of the with block.
compress_file_write(self, files, out, d, ext_text, c, w) ==
    [self |-> [self EXCEPT !.algorithm = c.self],
     fs |-> WriteFile(files, out, w.bytes),
     status |-> w.status, error |-> w.error,
     output_file |-> out, data |-> d,
     header |-> [algorithm_name |-> self.algorithm_name, ext |-> ext_text, payload |-> c.out],
     wrote |-> TRUE]

compress_file_compressed(self, files, out, d, ext_text, c) ==
    compress_file_write(self, files, out, d, ext_text, c,
                        WriteContainer(self.algorithm_name, ext_text, c.out))

\* compress_file(input_file, output_file): the Compressor and the file system
\* afterwards, the outcome, and the locals.
compress_file(self, files, input_file, output_file) ==
    IF input_file \notin DOMAIN files
    THEN [self |-> self, fs |-> files, status |-> "raised", error |-> "FileNotFoundError",
          output_file |-> <<>>, data |-> <<>>, header |-> NoHeader, wrote |-> FALSE]
    ELSE compress_file_compressed(self, files,
            IF output_file.given THEN output_file.path ELSE input_file \o Suffix_cmp,
            files[input_file], splitext(input_file)[2],
            CodecCompress(self.algorithm, files[input_file]))

\* f.read(n) at 1-based position pos: up to n bytes, fewer at the end of the file.
Read(b, pos, n) == SubSeq(b, pos, IF pos + n - 1 <= Len(b) THEN pos + n - 1 ELSE Len(b))

ParseFailed(e) == [status |-> "raised", error |-> e, header |-> NoHeader]

\* A plausible slip: the version byte is read but not compared with VERSION.
ParseContainer_noversion(b) ==
    IF Read(b, 1, 4) # MAGIC THEN ParseFailed("ValueError: invalid magic bytes")
    ELSE IF Len(b) < 5 THEN ParseFailed("struct.error")
    ELSE IF Len(b) < 6 THEN ParseFailed("struct.error")
    ELSE LET name_bytes == Read(b, 7, b[6])
             name == Utf8Decode(name_bytes)
             at == 7 + Len(name_bytes)
         IN IF ~name.ok THEN ParseFailed("UnicodeDecodeError")
            ELSE IF Len(b) < at THEN ParseFailed("struct.error")
            ELSE LET ext_bytes == Read(b, at + 1, b[at])
                     ext == Utf8Decode(ext_bytes)
                 IN IF ~ext.ok THEN ParseFailed("UnicodeDecodeError")
                    ELSE [status |-> "returned", error |-> "none",
                          header |-> [algorithm_name |-> name.text, ext |-> ext.text,
                                      payload |-> SubSeq(b, at + 1 + Len(ext_bytes), Len(b))]]

\* The with block of decompress_file: the header fields and the payload, or
\* the exception raised while reading them.
ParseContainer(b) ==
    IF Read(b, 1, 4) # MAGIC THEN ParseFailed("ValueError: invalid magic bytes")
    ELSE IF Len(b) < 5 THEN ParseFailed("struct.error")
    ELSE IF b[5] # VERSION THEN ParseFailed("ValueError: Unsupported version")
    ELSE IF Len(b) < 6 THEN ParseFailed("struct.error")
    ELSE LET name_bytes == Read(b, 7, b[6])
             name == Utf8Decode(name_bytes)
             at == 7 + Len(name_bytes)
         IN IF ~name.ok THEN ParseFailed("UnicodeDecodeError")
            ELSE IF Len(b) < at THEN ParseFailed("struct.error")
            ELSE LET ext_bytes == Read(b, at + 1, b[at])
                     ext == Utf8Decode(ext_bytes)
                 IN IF ~ext.ok THEN ParseFailed("UnicodeDecodeError")
                    ELSE [status |-> "returned", error |-> "none",
                          header |-> [algorithm_name |-> name.text, ext |-> ext.text,
                                      payload |-> SubSeq(b, at + 1 + Len(ext_bytes), Len(b))]]

\* A plausible slip: the payload is decoded with the Compressor's own algorithm.
DecoderFor_self(self, algorithm_name, alloc) ==
    [status |-> "returned", error |-> "none", instance |-> self.algorithm, allocated |-> alloc]

\* decompress_file's choice of the decoding instance: get_algorithm(algorithm_name).
DecoderFor(self, algorithm_name, alloc) == get_algorithm(algorithm_name, alloc)

\* decompress_file left by exception e, after alloc instances were created.
decompress_file_failed(self, files, e, hdr, look, alloc) ==
    [self |-> self, fs |-> files, allocated |-> alloc, status |-> "raised", error |-> e,
     output_file |-> <<>>, data |-> <<>>, header |-> hdr, lookup |-> look,
     decoder |-> "none", wrote |-> FALSE]

\* The end of decompress_file, with r the outcome of algorithm.decompress(compressed_data).
decompress_file_write(self, files, out, hdr, g, r) ==
    IF r.status = "raised"
    THEN [decompress_file_failed(self, files, r.error, hdr, Lookup(hdr.algorithm_name, g),
                                 g.allocated)
            EXCEPT !.decoder = g.instance.kind]
    ELSE [self |-> self,
          fs |-> WriteFile(files, out, r.value),
          allocated |-> g.allocated,
          status |-> "returned", error |-> "none",
          output_file |-> out, data |-> r.value,
          header |-> hdr, lookup |-> Lookup(hdr.algorithm_name, g),
          decoder |-> g.instance.kind, wrote |-> TRUE]

\* decompress_file from get_algorithm(algorithm_name) on, with g its outcome.
decompress_file_lookup(self, files, out, hdr, g) ==
    IF g.status = "raised"
    THEN decompress_file_failed(self, files, g.error, hdr, Lookup(hdr.algorithm_name, g),
                                g.allocated)
    ELSE decompress_file_write(self, files, out, hdr, g,
                               CodecDecompress(g.instance, hdr.payload))

\* decompress_file after the with block, with parsed its outcome.
decompress_file_parsed(self, files, base_name, output_file, alloc, parsed) ==
    IF parsed.status = "raised"
    THEN decompress_file_failed(self, files, parsed.error, NoHeader, NoLookup, alloc)
    ELSE decompress_file_lookup(self, files,
            IF output_file.given THEN output_file.path
            ELSE IF parsed.header.ext # <<>> THEN base_name \o parsed.header.ext
            ELSE base_name \o Suffix_decompressed,
            parsed.header,
            DecoderFor(self, parsed.header.algorithm_name, alloc))

\* decompress_file(input_file, output_file): the Compressor, the file system and the
\* instance count afterwards, the outcome, and the locals.
decompress_file(self, files, input_file, output_file, alloc) ==
    IF input_file \notin DOMAIN files
    THEN decompress_file_failed(self, files, "FileNotFoundError", NoHeader, NoLookup, alloc)
    ELSE decompress_file_parsed(self, files, splitext(input_file)[1], output_file, alloc,
                                ParseContainer(files[input_file]))

-----------------------------------------------------------------------------
(* The Compressor workflow: construct, compress_file, decompress_file.      *)

\* Names given to Compressor(...): 'RLE', 'Huffman', 'lzw' (the default), and
\* the unknown 'zip'.
CtorNames ==
    { <<82, 76, 69>>, <<72, 117, 102, 102, 109, 97, 110>>, Name_lzw, <<122, 105, 112>> }

\* A path whose extension encodes to n bytes: 'd.', an 'x' when n is even,
\* and e-acutes (two bytes each), so that the name stays short in characters.
LongExtPath(n) ==
    <<100, 46>> \o (IF n % 2 = 0 THEN <<120>> ELSE <<>>) \o Rep(233, (n - 1) \div 2)

\* Input files: 'b' (no extension), 'c.<e-acute>' (an extension of two
\* characters and three bytes), and extensions of 255 and 256 bytes.
InputPaths ==
    { <<98>>, <<99, 46, 233>>, LongExtPath(MaxUByte), LongExtPath(MaxUByte + 1) }

\* A path no file has: 'n'.
MissingPath == <<110>>
\* The output_file argument: None, or 'o'.
OutputArgs == {None, Some(<<111>>)}

\* The byte values of the input files: 'A' and 'B'.
FileAlphabet == {65, 66}
FileContents == SeqsUpTo(FileAlphabet, MaxFileLen)

InitFiles ==
    /\ \E path \in InputPaths, d \in FileContents : fs = (path :> d)
    /\ compressor = NoCompressor
    /\ allocated = 0
    /\ last = NoCall
    /\ codec = NoCodec
    /\ data = <<>>
    /\ compressed = NoPayload
    /\ result = NotCalled
    /\ decoding = NotDecoding

\* compressor = Compressor(name)
NewCompressor ==
    /\ allocated + 3 <= MaxInstances
    /\ \E name \in CtorNames :
        \E c \in {Compressor_init(name, allocated)} :
           /\ compressor' = IF c.status = "returned" THEN c.self ELSE compressor
           /\ allocated' = c.allocated
           /\ last' = [NoCall EXCEPT !.op = "Compressor", !.name = name,
                                     !.status = c.status, !.error = c.error,
                                     !.lookup = c.lookup, !.made = last.made]
    /\ UNCHANGED <<fs, codecVars>>

\* The container on record after a call that wrote (or not) the file at path.
MadeAfter(wrote, path) ==
    IF wrote /\ last.made.valid /\ last.made.path = path THEN NoContainer ELSE last.made

\* compressor.compress_file(input_file, output_file)
CompressFile ==
    /\ compressor # NoCompressor
    /\ \E input_file \in DOMAIN fs \cup {MissingPath}, output_file \in OutputArgs :
        /\ input_file \in DOMAIN fs => Len(fs[input_file]) <= MaxInputLen
        /\ \E c \in {compress_file(compressor, fs, input_file, output_file)} :
           /\ Cardinality(DOMAIN c.fs) <= MaxFiles
           /\ compressor' = c.self
           /\ fs' = c.fs
           /\ last' = [NoCall EXCEPT !.op = "compress_file", !.input_file = input_file,
                        !.output_file = c.output_file, !.status = c.status,
                        !.error = c.error, !.data = c.data, !.header = c.header,
                        !.made = IF c.status = "returned"
                                 THEN [valid |-> TRUE, path |-> c.output_file,
                                       data |-> c.data, header |-> c.header]
                                 ELSE MadeAfter(c.wrote, c.output_file)]
    /\ UNCHANGED <<allocated, codecVars>>

\* compressor.decompress_file(input_file, output_file)
DecompressFile ==
    /\ compressor # NoCompressor
    /\ allocated + 3 <= MaxInstances
    /\ \E input_file \in DOMAIN fs \cup {MissingPath}, output_file \in OutputArgs :
        \E c \in {decompress_file(compressor, fs, input_file, output_file, allocated)} :
           /\ Cardinality(DOMAIN c.fs) <= MaxFiles
           /\ compressor' = c.self
           /\ fs' = c.fs
           /\ allocated' = c.allocated
           /\ last' = [NoCall EXCEPT !.op = "decompress_file", !.input_file = input_file,
                        !.output_file = c.output_file, !.status = c.status,
                        !.error = c.error, !.data = c.data, !.header = c.header,
                        !.lookup = c.lookup, !.decoder = c.decoder,
                        !.made = MadeAfter(c.wrote, c.output_file),
                        !.source = IF last.made.valid /\ last.made.path = input_file
                                   THEN last.made ELSE NoContainer]
    /\ UNCHANGED codecVars

Next == NewCompressor \/ CompressFile \/ DecompressFile

Spec == InitFiles /\ [][Next]_vars

-----------------------------------------------------------------------------
(* Properties of the workflow *)

\* The call on record is decompress_file on the container compress_file wrote.
DecompressedMade == last.op = "decompress_file" /\ last.source.valid

\* C1: compress_file and then decompress_file on the container it wrote gives
\* output bytes equal to the input bytes and the same extension, for each of
\* rle, huffman and lzw, every input and every extension, the empty one included.
C1_FileRoundTrip ==
    DecompressedMade =>
        /\ last.status = "returned"
        /\ last.data = last.source.data
        /\ fs[last.output_file] = last.source.data
        /\ last.header.ext = last.source.header.ext

\* C6: container round trip. Parsing the container compress_file wrote gives
\* back the codec name, the extension (of encoded length 0..255) and the
\* payload that compress_file wrote, whatever the payload holds.
C6_ContainerRoundTrip ==
    DecompressedMade => last.header = last.source.header

\* The header of a container with an extension whose encoding is longer than
\* its text (a non-ASCII character) was parsed back.
C6_Witness ==
    /\ DecompressedMade
    /\ last.header = last.source.header
    /\ Len(Utf8Encode(last.header.ext)) > Len(last.header.ext)
    /\ last.header.payload # <<>>

\* The canonical name of each codec class.
CanonicalName(kind) ==
    CASE kind = "RLE" -> Name_rle
      [] kind = "HuffmanCoding" -> Name_huffman
      [] kind = "LZW" -> Name_lzw

\* C7: container byte layout. The file compress_file wrote holds 'CMPR', the
\* version byte 1, the length N of the codec name, the codec name in canonical
\* lower case, the length E of the extension, the extension, and the payload
\* the codec returned, in this order and nothing else.
C7_ContainerLayout ==
    (last.op = "compress_file" /\ last.status = "returned") =>
        LET name == Utf8Encode(CanonicalName(compressor.algorithm.kind))
            ext == Utf8Encode(splitext(last.input_file)[2])
        IN fs[last.output_file] =
              <<67, 77, 80, 82>> \o <<1>> \o <<Len(name)>> \o name
              \o <<Len(ext)>> \o ext \o last.header.payload

\* compress_file wrote a container, with an extension, for a Compressor that
\* was made from a name not in lower case (no name given for Huffman is).
C7_Witness ==
    /\ last.op = "compress_file" /\ last.status = "returned"
    /\ compressor.algorithm.kind = "HuffmanCoding"
    /\ \A n \in CtorNames : Lower(n) = Name_huffman => n # Lower(n)
    /\ last.header.ext # <<>>
    /\ last.header.payload # <<>>

\* C8: decompress_file decodes with the codec the container header names,
\* whatever algorithm the Compressor was made with, and leaves the Compressor's
\* algorithm and algorithm_name as they were.
C8_SelfDescribing ==
    [][last'.op = "decompress_file" =>
          /\ compressor' = compressor
          /\ last'.decoder # "none" =>
                CanonicalName(last'.decoder) = Lower(last'.header.algorithm_name)]_vars

\* A container was decoded by a codec other than the Compressor's own.
C8_Witness ==
    /\ last.op = "decompress_file" /\ last.status = "returned"
    /\ last.decoder # compressor.algorithm.kind
    /\ last.data = last.source.data /\ last.data # <<>>

\* a and b are equal up to the case of the letters 'A'..'Z', 'a'..'z'.
SameIgnoringCase(a, b) ==
    /\ Len(a) = Len(b)
    /\ \A i \in 1..Len(a) :
          \/ a[i] = b[i]
          \/ a[i] \in 65..90 /\ b[i] = a[i] + 32
          \/ b[i] \in 65..90 /\ a[i] = b[i] + 32

\* C9: get_algorithm(name) returns the RLE, Huffman or LZW codec for the names
\* equal, ignoring case, to 'rle', 'huffman', 'lzw'; raises the unknown-codec
\* error and returns no codec for every other name; and returns an instance
\* that no earlier call returned (one created during the call).
C9_Registry ==
    [][last'.lookup.made =>
          IF \E kind \in {"RLE", "HuffmanCoding", "LZW"} :
                SameIgnoringCase(last'.lookup.name, CanonicalName(kind))
          THEN /\ last'.lookup.status = "returned"
               /\ SameIgnoringCase(last'.lookup.name,
                                   CanonicalName(last'.lookup.instance.kind))
               /\ last'.lookup.instance.id > allocated
               /\ last'.lookup.instance.id <= allocated'
               /\ compressor.algorithm.id <= allocated
          ELSE /\ last'.lookup.status = "raised"
               /\ last'.lookup.error = "ValueError: Unknown algorithm"
               /\ last'.lookup.instance = NoCodec]_vars

\* A call after the first, with a name not in lower case, returned an instance
\* created after the three of the first call.
C9_Witness ==
    /\ last.lookup.made /\ last.lookup.status = "returned"
    /\ last.lookup.name # Lower(last.lookup.name)
    /\ last.lookup.instance.id > Len(RegistryDict(0))

\* C15: no partial output on error. Whenever compress_file or decompress_file
\* raises (unknown codec, bad magic, unsupported version, malformed payload, an
\* extension longer than 255 bytes), every file is as it was before the call:
\* the output file is neither created nor partly written.
C15_NoPartialOutput ==
    [][(last'.op \in {"compress_file", "decompress_file"} /\ last'.status = "raised")
          => fs' = fs]_vars

-----------------------------------------------------------------------------
(* decompress_file on files that compress_file did not write *)

\* The fields such a file is put together from: 'CMPR' or 'XXXX', version 1
\* or 2, the name 'rle' or 'zip', no extension or '.t', and a payload.
RawMagics == {MAGIC, <<88, 88, 88, 88>>}
RawVersions == {VERSION, VERSION + 1}
RawNames == {Name_rle, <<122, 105, 112>>}
RawExts == {<<>>, <<46, 116>>}
RawPayloads == {<<>>, <<2, 65>>, <<2, 65, 1>>}
\* A length byte declares the length of its field, or more.
RawExcess == {0, 2}

RawLayout(magic, version, name_len, name_bytes, ext_len, ext_bytes, payload) ==
    magic \o <<version>> \o <<name_len>> \o name_bytes \o <<ext_len>> \o ext_bytes \o payload

\* Every such file, and every file cut short of one.
RawContainers ==
    UNION { {SubSeq(b, 1, k) : k \in 0..Len(b)} :
            b \in { RawLayout(magic, version, Len(name_bytes) + nx, name_bytes,
                              Len(ext_bytes) + ex, ext_bytes, payload) :
                      magic \in RawMagics, version \in RawVersions,
                      name_bytes \in RawNames, nx \in RawExcess,
                      ext_bytes \in RawExts, ex \in RawExcess, payload \in RawPayloads } }

\* The file handed to decompress_file: 'k.cmp'.
RawPath == <<107, 46, 99, 109, 112>>

\* Compressor() with the default algorithm_name='lzw', as compress.py makes it
\* for decompression, and one file.
InitRaw ==
    /\ \E b \in RawContainers : fs = (RawPath :> b)
    /\ compressor = Compressor_init(Name_lzw, 0).self
    /\ allocated = Compressor_init(Name_lzw, 0).allocated
    /\ last = NoCall
    /\ codec = NoCodec
    /\ data = <<>>
    /\ compressed = NoPayload
    /\ result = NotCalled
    /\ decoding = NotDecoding

NextRaw == DecompressFile

SpecRaw == InitRaw /\ [][NextRaw]_vars

\* The call on record in the next state is decompress_file on an existing file.
DecompressFileStep == last'.op = "decompress_file" /\ last'.input_file \in DOMAIN fs

\* The call on record resolved no codec name, decoded no payload, wrote no file.
NothingDecoded == ~last'.lookup.made /\ last'.decoder = "none" /\ fs' = fs

\* The file b starts with the four bytes 'CMPR'.
HasMagic(b) == Len(b) >= 4 /\ SubSeq(b, 1, 4) = <<67, 77, 80, 82>>

\* C11: header validation order. A file whose first 4 bytes are not 'CMPR' (a
\* file shorter than 4 bytes included) fails with the bad-magic error whatever
\* follows; one with the magic and a version byte other than 1 fails with the
\* unsupported-version error; in both cases no codec name is resolved and no
\* payload is decoded.
C11_ValidationOrder ==
    [][DecompressFileStep =>
          LET b == fs[last'.input_file]
          IN /\ ~HasMagic(b) =>
                   /\ last'.status = "raised"
                   /\ last'.error = "ValueError: invalid magic bytes"
                   /\ NothingDecoded
             /\ (HasMagic(b) /\ Len(b) >= 5 /\ b[5] # 1) =>
                   /\ last'.status = "raised"
                   /\ last'.error = "ValueError: Unsupported version"
                   /\ NothingDecoded]_vars

\* A file with the magic, version 2 and then a complete header naming 'rle'
\* and a payload was refused for its version.
C11_Witness ==
    /\ last.op = "decompress_file"
    /\ last.error = "ValueError: Unsupported version"
    /\ last.input_file \in DOMAIN fs
    /\ LET b == fs[last.input_file]
       IN Len(b) >= 12 /\ SubSeq(b, 6, 9) = <<3>> \o Name_rle /\ b[10] = 0
    /\ ~last.lookup.made

\* The file b declares a name or an extension longer than what follows, or
\* ends before the version byte or a length byte.
Truncated(b) ==
    /\ HasMagic(b)
    /\ \/ Len(b) < 5
       \/ /\ b[5] = 1
          /\ \/ Len(b) < 6
             \/ Len(b) < 6 + b[6]
             \/ Len(b) < 7 + b[6]
             \/ Len(b) < 7 + b[6] + b[7 + b[6]]

\* C12: a file that ends before the version byte, before a length byte, or
\* before the declared name or extension is complete fails with the
\* truncated-container error and is never accepted.
C12_TruncatedRaises ==
    [][(DecompressFileStep /\ Truncated(fs[last'.input_file])) =>
          /\ last'.status = "raised"
          /\ last'.error = "struct.error"
          /\ fs' = fs]_vars

====
